---- MODULE Spec2Model ----
(***************************************************************************)
(* A model of the karateclub embedding estimators DeepWalk, Role2Vec and   *)
(* GL2Vec: the feature-extraction pipeline of each fit (random walks,      *)
(* Weisfeiler-Lehman features, line graph, windowed pooling, tagged        *)
(* corpus), the lookup of the trained vectors and get_embedding.           *)
(*                                                                         *)
(* Python strings are sequences of one-character strings, so str() and     *)
(* int() are conversions between numbers and digit sequences.  A vector    *)
(* of the external trainer is the symbolic value Vec(run, tag): "the       *)
(* vector training run number run returned for tag".                       *)
(***************************************************************************)
EXTENDS Integers, Sequences, FiniteSets, TLC

\* ------------------------------------------------------------------ bounds
MaxNodes == 3
MaxEdges == 2
MaxGraphs == 2
MaxListNodes == 3
MaxWalkLength == 3
MaxWindow == 3
MaxWalkNumber == 2
MaxCorpus == 9
WLIterations == 1
MaxFits == 2

\* min_count of DeepWalk: a token seen fewer times gets no vector.
min_count == 1

\* --------------------------------------------------------- Python strings
Digits == <<"0", "1", "2", "3", "4", "5", "6", "7", "8", "9">>

\* str(n) of a non-negative integer: its decimal digits.
RECURSIVE str(_)
str(n) == IF n < 10 THEN <<Digits[n + 1]>>
          ELSE str(n \div 10) \o <<Digits[(n % 10) + 1]>>

DigitValue(c) == CHOOSE d \in 0..9 : Digits[d + 1] = c

\* int(s) of a digit sequence.
RECURSIVE int(_)
int(s) == IF Len(s) = 1 THEN DigitValue(s[1])
          ELSE 10 * int(SubSeq(s, 1, Len(s) - 1)) + DigitValue(s[Len(s)])

\* The characters that occur, in ASCII order ("#" starts a digest).
Alphabet == <<"#", "0", "1", "2", "3", "4", "5", "6", "7", "8", "9", "_", "a", "b">>

Ord(c) == CHOOSE k \in 1..Len(Alphabet) : Alphabet[k] = c

\* s < t, as Python compares strings.
RECURSIVE StrLess(_, _)
StrLess(s, t) ==
    IF t = <<>> THEN FALSE
    ELSE IF s = <<>> THEN TRUE
    ELSE IF Ord(Head(s)) < Ord(Head(t)) THEN TRUE
    ELSE IF Ord(Head(s)) > Ord(Head(t)) THEN FALSE
    ELSE StrLess(Tail(s), Tail(t))

\* "_".join(list)
RECURSIVE Join(_)
Join(list) == IF list = <<>> THEN <<>>
              ELSE IF Len(list) = 1 THEN list[1]
              ELSE list[1] \o <<"_">> \o Join(Tail(list))

\* The concatenation of a list of lists.
RECURSIVE Flatten(_)
Flatten(lists) == IF lists = <<>> THEN <<>> ELSE Head(lists) \o Flatten(Tail(lists))

\* The elements of a set of numbers in ascending order.
RECURSIVE Ascending(_)
Ascending(S) == IF S = {} THEN <<>>
                ELSE LET m == CHOOSE x \in S : \A y \in S : x <= y
                     IN <<m>> \o Ascending(S \ {m})

\* All enumerations (orders without repetition) of a finite set.
RECURSIVE Enumerations(_)
Enumerations(S) == IF S = {} THEN {<<>>}
                   ELSE UNION {{<<x>> \o e : e \in Enumerations(S \ {x})} : x \in S}

Range(s) == {s[k] : k \in DOMAIN s}

Reverse(s) == [k \in DOMAIN s |-> s[Len(s) + 1 - k]]

\* ------------------------------------------------------------------ graphs
\* A graph: its nodes, its edges (two-element sets of nodes) and the "feature"
\* attribute of the nodes that carry one.
NoFeature == <<>>

Graph(nodes, edges, feature) == [nodes |-> nodes, edges |-> edges, feature |-> feature]

Neighbors(g, v) == {u \in g.nodes : {u, v} \in g.edges}

Degree(g, v) == Cardinality(Neighbors(g, v))

\* The input graphs: contiguous node ids [0, n), at most MaxEdges edges.
Pairs(n) == {{u, v} : u, v \in 0..(n - 1)} \ {{u} : u \in 0..(n - 1)}

PlainGraphs(n) == {Graph(0..(n - 1), E, NoFeature) : E \in {X \in SUBSET Pairs(n) : Cardinality(X) <= MaxEdges}}

\* The same graphs with a "feature" on every node.
FeatureStyles(n) == {[v \in 0..(n - 1) |-> <<"a">>], [v \in 0..(n - 1) |-> IF v = 0 THEN <<"b">> ELSE <<"a">>]}

AttributedGraphs(n) == {Graph(g.nodes, g.edges, f) : g \in PlainGraphs(n), f \in FeatureStyles(n)}

HasFeature(g) == g.nodes # {} /\ \A v \in g.nodes : v \in DOMAIN g.feature

\* --------------------------------------------- WeisfeilerLehmanHashing
\* The initial label of a node: its "feature" when the hashing is attributed
\* and the node carries one, its degree stringified otherwise.
InitialLabel(g, v, attributed) ==
    IF attributed /\ v \in DOMAIN g.feature THEN g.feature[v] ELSE str(Degree(g, v))

\* The digest of a string: an injective symbolic value, "#" before the text.
Digest(s) == <<"#">> \o s

\* The current labels of the neighbours of v, sorted.
SortedNeighborLabels(g, v, labels) ==
    LET nebs == Ascending(Neighbors(g, v))
    IN SortSeq([k \in DOMAIN nebs |-> labels[nebs[k]]], StrLess)

\* One round: every node's new label from the previous round's labels.
Refine(g, labels) ==
    [v \in g.nodes |-> Digest(Join(<<labels[v]>> \o SortedNeighborLabels(g, v, labels)))]

RECURSIVE LabelsAt(_, _, _)
LabelsAt(g, attributed, k) ==
    IF k = 0 THEN [v \in g.nodes |-> InitialLabel(g, v, attributed)]
    ELSE Refine(g, LabelsAt(g, attributed, k - 1))

\* Per node, its labels of rounds 0 .. wl_iterations.
get_node_features(g, wl_iterations, attributed) ==
    [v \in g.nodes |-> [k \in 1..(wl_iterations + 1) |-> LabelsAt(g, attributed, k - 1)[v]]]

\* All nodes' labels, nodes in ascending order.
get_graph_features(g, wl_iterations, attributed) ==
    LET order == Ascending(g.nodes)
        nf == get_node_features(g, wl_iterations, attributed)
    IN Flatten([k \in DOMAIN order |-> nf[order[k]]])

\* ------------------------------------------------------------ RandomWalker
\* Where a walk at v may step: a neighbour, or v itself when it has none.
Steps(g, v) == IF Neighbors(g, v) = {} THEN {v} ELSE Neighbors(g, v)

RECURSIVE WalksFrom(_, _, _)
WalksFrom(g, v, len) ==
    IF len <= 1 THEN {<<v>>}
    ELSE {<<v>> \o rest : rest \in UNION {WalksFrom(g, u, len - 1) : u \in Steps(g, v)}}

\* A walk as the walker returns it: node ids stringified.
Serialize(nodes) == [k \in DOMAIN nodes |-> str(nodes[k])]

\* The roots of the walks in order: walk_number walks per node, nodes ascending.
Roots(g, number) ==
    LET order == Ascending(g.nodes)
    IN [k \in 1..(Len(order) * number) |-> order[((k - 1) \div number) + 1]]

RECURSIVE CorporaOf(_, _, _)
CorporaOf(g, roots, len) ==
    IF roots = <<>> THEN {<<>>}
    ELSE {<<Serialize(first)>> \o rest : first \in WalksFrom(g, Head(roots), len),
                                         rest \in CorporaOf(g, Tail(roots), len)}

\* Every corpus do_walks may produce.
do_walks(g, len, number) == CorporaOf(g, Roots(g, number), len)

\* ------------------------------------------------------------------ GL2Vec
\* networkx line_graph: a node per edge, adjacent when the edges share an endpoint.
line_graph(g) ==
    Graph(g.edges,
          {e \in {{a, b} : a, b \in g.edges} :
              Cardinality(e) = 2 /\ \A a, b \in e : a # b => a \cap b # {}},
          NoFeature)

\* node_mapper: each line-graph node's place (from 0) in the enumeration enum.
node_mapper(enum) ==
    [node \in Range(enum) |-> (CHOOSE k \in DOMAIN enum : enum[k] = node) - 1]

\* networkx from_edgelist: the graph of the listed edges, its nodes their endpoints.
from_edgelist(edges) == Graph(UNION edges, edges, NoFeature)

\* GL2Vec._create_line_graph, enum being the order in which networkx
\* enumerates the nodes of line_graph(graph).
create_line_graph(graph, enum) ==
    LET L == line_graph(graph)
        mapper == node_mapper(enum)
        edges == {{mapper[a] : a \in e} : e \in L.edges}
    IN from_edgelist(edges)

\* The attributed argument GL2Vec.fit passes to the hashing.
GL2VecAttributed == FALSE

\* documents of GL2Vec.fit: the words of each line graph, tagged str(index).
GL2VecDocuments(graphs) ==
    [k \in DOMAIN graphs |->
        [words |-> get_graph_features(graphs[k], WLIterations, GL2VecAttributed),
         tags |-> <<str(k - 1)>>]]

\* ---------------------------------------------------------------- Role2Vec
transform_walks(walks) ==
    [k \in DOMAIN walks |-> [p \in DOMAIN walks[k] |-> int(walks[k][p])]]

\* Faulty variants of PoolRange: the bound taken as a distance; the bound one too far.
PoolRangeAbs(length, window) == IF length >= window THEN length - window ELSE window - length

PoolRangePlusOne(length, window) == length - window + 1

\* range(self.walk_length - self.window_size): the number of offsets i.
PoolRange(length, window) == length - window

\* Faulty variants of Accumulate: only the source's accumulator is fed; the
\* diagonal source = target is skipped.
AccumulateOneWay(nf, features, source, target) ==
    [nf EXCEPT ![source] = Append(@, features[target])]

AccumulateSkipSelf(nf, features, source, target) ==
    IF source = target THEN nf
    ELSE LET first == [nf EXCEPT ![source] = Append(@, features[target])]
         IN [first EXCEPT ![target] = Append(@, features[source])]

\* The body of the pooling loop for one (source, target).
Accumulate(nf, features, source, target) ==
    LET first == [nf EXCEPT ![source] = Append(@, features[target])]
    IN [first EXCEPT ![target] = Append(@, features[source])]

\* Line 64: an empty accumulator per key of features.
NewFeatures(node_features) == [node \in DOMAIN node_features |-> <<>>]

\* Faulty variant of Role2VecDocuments: the tag is the document's place in the list.
Role2VecDocumentsByPlace(nf, keys) ==
    [k \in DOMAIN keys |-> [words |-> Flatten(nf[keys[k]]), tags |-> <<str(k - 1)>>]]

\* Lines 74-75: flatten every accumulator, one tagged document per key, in
\* the order keys of the dictionary.
Role2VecDocuments(nf, keys) ==
    [k \in DOMAIN keys |-> [words |-> Flatten(nf[keys[k]]), tags |-> <<str(keys[k])>>]]

\* ------------------------------------------------------------ the trainer
Vec(run, tag) == [run |-> run, tag |-> tag]

Tags(documents) == {documents[k].tags[1] : k \in DOMAIN documents}

\* Doc2Vec(documents).docvecs: one vector per tag.
Doc2Vec(documents, run) == [t \in Tags(documents) |-> Vec(run, t)]

Occurrences(walks, token) ==
    Cardinality({pos \in UNION {{<<k, p>> : p \in DOMAIN walks[k]} : k \in DOMAIN walks} :
                    walks[pos[1]][pos[2]] = token})

\* Word2Vec(walks): one vector per token seen at least min_count times.
Word2Vec(walks, run) ==
    [t \in {tok \in UNION {Range(walks[k]) : k \in DOMAIN walks} :
               Occurrences(walks, tok) >= min_count} |-> Vec(run, t)]

\* Faulty variant of LookupByIndex: the range is walked backwards.
LookupReversed(model, count) == [k \in 1..count |-> model[str(count - k)]]

\* [model[str(n)] for n in range(count)]
LookupByIndex(model, count) == [k \in 1..count |-> model[str(k - 1)]]

LookupDefined(model, count) == \A k \in 1..count : str(k - 1) \in DOMAIN model

\* Faulty variant of StoreEmbedding: the new rows are added to the stored ones.
StoreEmbeddingExtend(old, new) == old \o new

\* self._embedding = <the new list>
StoreEmbedding(old, new) == new

\* ------------------------------------------------------------------- state
VARIABLES
    kind,           \* the estimator's class
    walk_length,    \* constructor parameters
    window_size,
    walk_number,
    has_embedding,  \* whether the attribute self._embedding exists
    embedding,      \* self._embedding
    fits,           \* completed training runs
    last_count,     \* nodes (graphs) of the input of the latest completed fit
    ret,            \* the latest call and its outcome
    pc,             \* "idle", or where the running fit is
    arg,            \* the running fit's input: a list of graphs
    enums,          \* per input graph, networkx's order of its line-graph nodes
    line_graphs,    \* GL2Vec.fit: graphs after the line-graph transform
    walks,          \* walker.walks
    features,       \* Role2Vec: node_features
    keys,           \* Role2Vec: the keys of features in dictionary order
    new_features,   \* Role2Vec._create_documents: the accumulators
    walk, i, j,     \* Role2Vec._create_documents: the loop's position
    documents       \* the tagged corpus handed to the trainer

pars == <<kind, walk_length, window_size, walk_number>>
stored == <<has_embedding, embedding, fits, last_count>>
locals == <<arg, enums, line_graphs, walks, features, keys, new_features, walk, i, j, documents>>
vars == <<pars, stored, ret, pc, locals>>

Kinds == {"DeepWalk", "Role2Vec", "GL2Vec"}

Outcome(op, ok, error, value) == [op |-> op, ok |-> ok, error |-> error, value |-> value]

\* Faulty variant of InitHasEmbedding: the constructor sets an empty _embedding.
InitHasEmbeddingSet == TRUE

\* The attribute _embedding after __init__: no constructor assigns it.
InitHasEmbedding == FALSE

ClearLocals ==
    /\ arg' = <<>>
    /\ enums' = <<>>
    /\ line_graphs' = <<>>
    /\ walks' = <<>>
    /\ features' = <<>>
    /\ keys' = <<>>
    /\ new_features' = <<>>
    /\ walk' = 0
    /\ i' = 0
    /\ j' = 0
    /\ documents' = <<>>

Init ==
    /\ kind \in Kinds
    /\ walk_length \in IF kind = "GL2Vec" THEN {1} ELSE 1..MaxWalkLength
    /\ walk_number \in IF kind = "GL2Vec" THEN {1} ELSE 1..MaxWalkNumber
    /\ window_size \in IF kind = "Role2Vec" THEN 1..MaxWindow ELSE {1}
    /\ has_embedding = InitHasEmbedding
    /\ embedding = <<>>
    /\ fits = 0
    /\ last_count = 0
    /\ ret = Outcome("none", TRUE, "", <<>>)
    /\ pc = "idle"
    /\ arg = <<>>
    /\ enums = <<>>
    /\ line_graphs = <<>>
    /\ walks = <<>>
    /\ features = <<>>
    /\ keys = <<>>
    /\ new_features = <<>>
    /\ walk = 0
    /\ i = 0
    /\ j = 0
    /\ documents = <<>>

\* The graphs a walk-based fit is given: valid, the corpus of at most
\* MaxCorpus node ids.
WalkInputs ==
    UNION {PlainGraphs(n) : n \in {m \in 1..MaxNodes : m * walk_length * walk_number <= MaxCorpus}}

\* The orders in which a graph may list its nodes (the order of the keys of
\* features): ascending, or the reverse.
KeyOrders(nodes) == {Ascending(nodes), Reverse(Ascending(nodes))}

\* ---------------------------------------------------------------- DeepWalk
\* DeepWalk.fit up to the call of Word2Vec.
DeepWalkFit ==
    /\ kind = "DeepWalk" /\ pc = "idle" /\ fits < MaxFits
    /\ \E graph \in WalkInputs : \E corpus \in do_walks(graph, walk_length, walk_number) :
        /\ arg' = <<graph>>
        /\ walks' = corpus
    /\ pc' = "train"
    /\ ret' = Outcome("fit", TRUE, "", <<>>)
    /\ UNCHANGED <<pars, stored, enums, line_graphs, features, keys, new_features, walk, i, j, documents>>

\* ---------------------------------------------------------------- Role2Vec
\* Role2Vec.fit up to the loop of _create_documents: the walks, the features
\* and the empty accumulators (line 64).
Role2VecFit ==
    /\ kind = "Role2Vec" /\ pc = "idle" /\ fits < MaxFits
    /\ \E graph \in WalkInputs : \E corpus \in do_walks(graph, walk_length, walk_number) :
       \E order \in KeyOrders(graph.nodes) :
        /\ arg' = <<graph>>
        /\ walks' = corpus
        /\ features' = get_node_features(graph, WLIterations, FALSE)
        /\ keys' = order
        /\ new_features' = NewFeatures(get_node_features(graph, WLIterations, FALSE))
    /\ walk' = 1 /\ i' = 0 /\ j' = 0
    /\ pc' = "pool"
    /\ ret' = Outcome("fit", TRUE, "", <<>>)
    /\ UNCHANGED <<pars, stored, enums, line_graphs, documents>>

\* Whether the loop has a body left to run at (walk, i, j).
LoopActive ==
    /\ walk <= Len(walks)
    /\ i < PoolRange(walk_length, window_size)
    /\ j < window_size

\* The walk being pooled, as integers.
CurrentWalk == transform_walks(walks)[walk]

\* One run of the loop body (lines 69-72) and the step to the next (walk, i, j).
PoolStep ==
    /\ pc = "pool" /\ LoopActive
    /\ IF i + j >= Len(CurrentWalk)
       THEN \* walk[i+j] raises IndexError: fit fails, nothing is stored
            /\ pc' = "idle"
            /\ ret' = Outcome("fit", FALSE, "IndexError", <<>>)
            /\ ClearLocals
       ELSE /\ new_features' = Accumulate(new_features, features,
                                          CurrentWalk[i + 1], CurrentWalk[i + j + 1])
            /\ IF j + 1 < window_size
               THEN j' = j + 1 /\ UNCHANGED <<walk, i>>
               ELSE IF i + 1 < PoolRange(walk_length, window_size)
                    THEN i' = i + 1 /\ j' = 0 /\ UNCHANGED walk
                    ELSE walk' = walk + 1 /\ i' = 0 /\ j' = 0
            /\ UNCHANGED <<pc, ret, arg, enums, line_graphs, walks, features, keys, documents>>
    /\ UNCHANGED <<pars, stored>>

\* The end of _create_documents (lines 74-76).
PoolFinish ==
    /\ pc = "pool" /\ ~LoopActive
    /\ documents' = Role2VecDocuments(new_features, keys)
    /\ pc' = "train"
    /\ UNCHANGED <<pars, stored, ret, arg, enums, line_graphs, walks, features, keys, new_features, walk, i, j>>

\* ------------------------------------------------------------------ GL2Vec
Min(a, b) == IF a <= b THEN a ELSE b

\* An input graph of GL2Vec.fit, with or without features, and an order in
\* which networkx may enumerate the nodes of its line graph.
GLInputs(budget) ==
    UNION {UNION {{<<g, e>> : e \in Enumerations(g.edges)} :
                     g \in PlainGraphs(n) \cup AttributedGraphs(n)} :
              n \in 1..Min(MaxNodes, budget)}

\* The lists of count such inputs with at most budget nodes in all.
RECURSIVE GLLists(_, _)
GLLists(count, budget) ==
    IF count = 0 THEN {<<>>}
    ELSE UNION {{<<x>> \o rest : rest \in GLLists(count - 1, budget - Cardinality(x[1].nodes))} :
                   x \in GLInputs(budget - (count - 1))}

\* GL2Vec.fit up to the call of Doc2Vec (lines 63-66).
GL2VecFit ==
    /\ kind = "GL2Vec" /\ pc = "idle" /\ fits < MaxFits
    /\ \E count \in 1..MaxGraphs : \E list \in GLLists(count, MaxListNodes) :
        LET graphs == [k \in DOMAIN list |-> create_line_graph(list[k][1], list[k][2])]
        IN /\ arg' = [k \in DOMAIN list |-> list[k][1]]
           /\ enums' = [k \in DOMAIN list |-> list[k][2]]
           /\ line_graphs' = graphs
           /\ documents' = GL2VecDocuments(graphs)
    /\ pc' = "train"
    /\ ret' = Outcome("fit", TRUE, "", <<>>)
    /\ UNCHANGED <<pars, stored, walks, features, keys, new_features, walk, i, j>>

\* ------------------------------------------------------- training, lookup
\* Nodes of the input graph, or graphs of the input list.
InputCount == IF kind = "GL2Vec" THEN Len(arg) ELSE Cardinality(arg[1].nodes)

\* The rest of fit: the trainer is run on the corpus and the vectors are
\* looked up and stored (role2vec.py 95-105, deepwalk.py 47-57, gl2vec.py 68-79).
Train ==
    /\ pc = "train"
    /\ LET run == fits + 1
           model == IF kind = "DeepWalk" THEN Word2Vec(walks, run) ELSE Doc2Vec(documents, run)
           count == IF kind = "DeepWalk" THEN Cardinality(arg[1].nodes) ELSE Len(documents)
       IN IF LookupDefined(model, count)
          THEN /\ embedding' = StoreEmbedding(embedding, LookupByIndex(model, count))
               /\ has_embedding' = TRUE
               /\ fits' = run
               /\ last_count' = InputCount
               /\ UNCHANGED ret
          ELSE \* a lookup raises KeyError: fit fails, nothing is stored
               /\ ret' = Outcome("fit", FALSE, "KeyError", <<>>)
               /\ UNCHANGED stored
    /\ pc' = "idle"
    /\ ClearLocals
    /\ UNCHANGED pars

\* get_embedding: np.array(self._embedding); AttributeError without the attribute.
GetEmbedding ==
    /\ pc = "idle"
    /\ ret' = IF has_embedding THEN Outcome("get_embedding", TRUE, "", embedding)
              ELSE Outcome("get_embedding", FALSE, "AttributeError", <<>>)
    /\ UNCHANGED <<pars, stored, pc, locals>>

Next ==
    \/ DeepWalkFit
    \/ Role2VecFit
    \/ PoolStep
    \/ PoolFinish
    \/ GL2VecFit
    \/ Train
    \/ GetEmbedding

Spec == Init /\ [][Next]_vars

\* ========================================================== properties
\* ------------------------------------------ the pooling rule, restated
\* The walks as integers, and the windows (walk, offset i, offset j) in the
\* order of the loop: walk-major, then i, then j.
IntWalks == transform_walks(walks)

Offsets == IF walk_length - window_size > 0 THEN walk_length - window_size ELSE 0

WindowCount == Len(walks) * Offsets * window_size

\* The d-th window (d from 0).
WindowAt(d) ==
    [w |-> (d \div (Offsets * window_size)) + 1,
     a |-> (d % (Offsets * window_size)) \div window_size,
     b |-> d % window_size]

SourceAt(d) == IntWalks[WindowAt(d).w][WindowAt(d).a + 1]

TargetAt(d) == IntWalks[WindowAt(d).w][WindowAt(d).a + WindowAt(d).b + 1]

\* What the rule appends to the accumulator of node in the first d windows.
RECURSIVE ExpectedAppends(_, _)
ExpectedAppends(node, d) ==
    IF d = 0 THEN <<>>
    ELSE ExpectedAppends(node, d - 1)
         \o (IF SourceAt(d - 1) = node THEN <<features[TargetAt(d - 1)]>> ELSE <<>>)
         \o (IF TargetAt(d - 1) = node THEN <<features[SourceAt(d - 1)]>> ELSE <<>>)

\* The windows the loop has run when it stands at (walk, i, j).
WindowsDone ==
    IF Offsets = 0 THEN 0
    ELSE (walk - 1) * Offsets * window_size + i * window_size + j

InPool == kind = "Role2Vec" /\ pc = "pool"

Pooled == kind = "Role2Vec" /\ pc = "train"

\* C1: Role2Vec._create_documents implements the windowed pooling rule: at
\* every point of the loop each accumulator holds exactly what the rule
\* appends for the windows run so far, in that order (both appends for every
\* window, so twice the node's own features for j = 0), and each Pooled
\* Document is the flattened accumulator after all windows.
C1_PoolingRule ==
    /\ InPool => \A node \in DOMAIN features :
                    new_features[node] = ExpectedAppends(node, WindowsDone)
    /\ Pooled => /\ Len(documents) = Len(keys)
                 /\ \A k \in DOMAIN documents :
                      documents[k].words = Flatten(ExpectedAppends(keys[k], WindowCount))

\* A pooled corpus in which a window joined two different nodes.
C1_Witness ==
    /\ Pooled
    /\ \E d \in 0..(WindowCount - 1) : SourceAt(d) # TargetAt(d)
    /\ \E k \in DOMAIN documents : documents[k].words # <<>>

\* ----------------------------------------------------------------- C2
\* The node is source or target only of windows with source = target.
NeverCoOccurs(node) ==
    \A d \in 0..(WindowCount - 1) :
        (SourceAt(d) = node \/ TargetAt(d) = node) => SourceAt(d) = TargetAt(d)

\* The windows whose source is node.
SourceCount(node) == Cardinality({d \in 0..(WindowCount - 1) : SourceAt(d) = node})

RECURSIVE Repeat(_, _)
Repeat(list, times) == IF times = 0 THEN <<>> ELSE list \o Repeat(list, times - 1)

Isolated(node) == Neighbors(arg[1], node) = {}

\* C2 as stated: a node that never co-occurs with another node inside any
\* window has an empty Pooled Document and is still a key.
C2_EmptyDocument ==
    Pooled => \A node \in DOMAIN features :
                 NeverCoOccurs(node) =>
                    \E k \in DOMAIN documents :
                        documents[k].tags = <<str(node)>> /\ documents[k].words = <<>>

\* C2 amended: such a node is still a key, and its Pooled Document holds its
\* own Node Feature Multiset and nothing else, twice for every window whose
\* source it is; for an isolated node with window_size = 1 that is
\* 2 * (walk_length - 1) * walk_number copies, so the document is empty only
\* when the node is the source of no window.
C2_OwnFeaturesOnly ==
    Pooled => \A node \in DOMAIN features :
                 NeverCoOccurs(node) =>
                    \E k \in DOMAIN documents :
                        /\ documents[k].tags = <<str(node)>>
                        /\ documents[k].words = Repeat(features[node], 2 * SourceCount(node))
                        /\ (Isolated(node) /\ window_size = 1) =>
                              SourceCount(node) = (walk_length - 1) * walk_number

\* An isolated node, window_size = 1, walk_length > 1, its document built.
C2_Witness ==
    /\ Pooled /\ window_size = 1 /\ walk_length > 1
    /\ \E k \in DOMAIN documents :
          Isolated(keys[k]) /\ NeverCoOccurs(keys[k]) /\ documents[k].words # <<>>

\* ----------------------------------------------------------------- C9
\* C9: the output keys of _create_documents are the keys of
\* per_node_features, one document each; a node touched by no window has an
\* empty document; with window_size >= walk_length no pair is formed, every
\* document is empty, and no error is raised.
C9_DegenerateWindow ==
    /\ (kind = "Role2Vec" /\ ret.op = "fit") => ret.ok
    /\ (InPool /\ window_size >= walk_length) =>
          ~LoopActive /\ \A node \in DOMAIN features : new_features[node] = <<>>
    /\ Pooled =>
          /\ Len(documents) = Cardinality(DOMAIN features)
          /\ {documents[k].tags : k \in DOMAIN documents} = {<<str(node)>> : node \in DOMAIN features}
          /\ \A k \in DOMAIN documents :
                (\A d \in 0..(WindowCount - 1) : SourceAt(d) # keys[k] /\ TargetAt(d) # keys[k])
                   => documents[k].words = <<>>
          /\ window_size >= walk_length => \A k \in DOMAIN documents : documents[k].words = <<>>

\* A corpus built with window_size >= walk_length, more than one node.
C9_Witness ==
    Pooled /\ window_size >= walk_length /\ Len(documents) > 1

\* ---------------------------------------------------------------- C10
\* C10: every (i, j) the loop visits has i + j <= walk_length - 2: no index
\* is out of range, and the last position of a walk is never read.
C10_IndexBound ==
    /\ (InPool /\ LoopActive) =>
          /\ i + j <= walk_length - 2
          /\ i + j + 1 \in DOMAIN CurrentWalk
          /\ i + j + 1 # Len(CurrentWalk)
    /\ ret.error # "IndexError"

\* The loop at its largest index, read as a target.
C10_Witness == InPool /\ LoopActive /\ j > 0 /\ i + j = walk_length - 2

\* ----------------------------------------------------------------- C4
Distinct(docs) ==
    \A k, q \in DOMAIN docs : k # q => docs[k].tags # docs[q].tags

\* C4: the corpus handed to the trainer has pairwise distinct tags, one
\* document per entity: GL2Vec.fit tags the i-th graph's document str(i);
\* Role2Vec._create_documents makes one document per node of
\* per_node_features, tagged with the node's stringified id.
C4_DistinctTags ==
    /\ (kind = "GL2Vec" /\ pc = "train") =>
          /\ Len(documents) = Len(arg)
          /\ \A k \in DOMAIN documents :
                /\ documents[k].tags = <<str(k - 1)>>
                /\ documents[k].words = get_graph_features(line_graphs[k], WLIterations, FALSE)
          /\ Distinct(documents)
    /\ Pooled =>
          /\ Distinct(documents)
          /\ \A node \in DOMAIN features :
                Cardinality({k \in DOMAIN documents : documents[k].tags = <<str(node)>>}) = 1
          /\ \A k \in DOMAIN documents :
                \E node \in DOMAIN features :
                    /\ documents[k].tags = <<str(node)>>
                    /\ documents[k].words = Flatten(new_features[node])

\* A corpus of several documents, of either kind, not in ascending order.
C4_Witness ==
    \/ kind = "GL2Vec" /\ pc = "train" /\ Len(documents) > 1
    \/ Pooled /\ Len(documents) > 1 /\ keys[1] # 0

\* ----------------------------------------------------------------- C3
\* C3 as stated: the graph _create_line_graph returns for a graph with m
\* edges has the nodes [0, m), one per original edge, numbered in the order
\* the line graph's nodes are enumerated, two of them adjacent iff their
\* edges share an endpoint; also when an edge shares no endpoint with any
\* other edge.
C3_LineGraph ==
    (kind = "GL2Vec" /\ pc = "train") =>
        \A k \in DOMAIN arg :
            /\ line_graphs[k].nodes = 0..(Cardinality(arg[k].edges) - 1)
            /\ \A p, q \in DOMAIN enums[k] :
                  p # q => ({p - 1, q - 1} \in line_graphs[k].edges
                               <=> enums[k][p] \cap enums[k][q] # {})

\* ----------------------------------------------------------------- C8
\* The input graph without its "feature" attributes.
Unattributed(g) == Graph(g.nodes, g.edges, NoFeature)

\* C8 as stated: for an input graph whose nodes carry "feature", the words
\* of its document are based on the feature values, not on the degree
\* default the same graph without features gets.
C8_FeatureBased ==
    (kind = "GL2Vec" /\ pc = "train") =>
        \A k \in DOMAIN arg :
            (HasFeature(arg[k]) /\ line_graphs[k].nodes # {}) =>
                documents[k].words #
                    get_graph_features(create_line_graph(Unattributed(arg[k]), enums[k]),
                                       WLIterations, FALSE)

\* ----------------------------------------------------------------- C5
\* C5: after fit the stored vectors are ordered by node id (graph index):
\* as many rows as the input has nodes (graphs), row i the vector the
\* trainer returned for tag (token) str(i), whatever the order of the
\* corpus; get_embedding returns these rows.
C5_OrderedByIndex ==
    has_embedding =>
        /\ Len(embedding) = last_count
        /\ \A k \in 1..last_count : embedding[k] = Vec(fits, str(k - 1))
        /\ (ret.op = "get_embedding" /\ pc = "idle") => ret.ok /\ ret.value = embedding

\* get_embedding has returned the rows of a Role2Vec fit on several nodes.
C5_Witness ==
    /\ kind = "Role2Vec" /\ ret.op = "get_embedding" /\ ret.ok
    /\ Len(ret.value) > 1

\* ----------------------------------------------------------------- C6
\* C6: a fit that completes stores exactly the vectors of its own training
\* run, one per node (graph) of its input, nothing kept from earlier fits;
\* no other step changes the stored vectors; a get_embedding returns them.
C6_RefitOverwrites ==
    [][/\ (pc = "train" /\ ret'.ok) =>
            /\ has_embedding'
            /\ fits' = fits + 1
            /\ Len(embedding') = InputCount
            /\ \A k \in DOMAIN embedding' : embedding'[k].run = fits'
       /\ pc # "train" => embedding' = embedding /\ has_embedding' = has_embedding /\ fits' = fits
       /\ (pc = "idle" /\ pc' = "idle" /\ has_embedding) =>
            /\ ret' = Outcome("get_embedding", TRUE, "", embedding)
            /\ Len(ret'.value) = last_count
            /\ \A k \in DOMAIN ret'.value : ret'.value[k].run = fits]_vars

\* get_embedding after a second fit.
C6_Witness == fits = 2 /\ ret.op = "get_embedding" /\ ret.ok /\ Len(ret.value) > 0

\* ----------------------------------------------------------------- C7
\* C7: get_embedding on an estimator on which no fit has completed fails
\* and returns no embedding; the failing call changes nothing of the
\* estimator; once a fit has completed get_embedding succeeds.
C7_GetBeforeFit ==
    /\ [](ret.op = "get_embedding" =>
            /\ fits = 0 => ~ret.ok /\ ret.error = "AttributeError" /\ ret.value = <<>>
            /\ fits > 0 => ret.ok /\ ret.value = embedding /\ Len(ret.value) = last_count)
    /\ [][(pc = "idle" /\ pc' = "idle" /\ fits = 0) =>
            /\ ~ret'.ok
            /\ UNCHANGED <<pars, stored, locals>>]_vars

\* get_embedding has failed on an estimator that was never fitted.
C7_Witness == ret.op = "get_embedding" /\ ~ret.ok /\ fits = 0 /\ ~has_embedding

====
